---------------------------- MODULE Spec2Model ----------------------------
(***************************************************************************)
(* Model of the colour-sorting puzzle solver of src/src/main.rs.           *)
(*                                                                         *)
(* A Puzzle is the triple (column_size, colors_count, state).  Columns are *)
(* sequences whose last element is the top token.  Column indices and the  *)
(* two components of a Move are 0-based, as in the source; Col(st, i) is   *)
(* the column with index i.                                                *)
(***************************************************************************)
EXTENDS Integers, Sequences, FiniteSets, TLC

(***************************************************************************)
(* Bounds of the model.                                                    *)
(***************************************************************************)
MaxCols == 3        \* largest number of columns of a constructed board
MaxCap == 3         \* largest column_size
NumColors == 2      \* colours are 1..NumColors
Extra == 1          \* an input column is at most column_size + Extra long
MaxTokens == 3      \* largest number of tokens in the input of Puzzle::new
SolveCols == 3      \* largest number of columns of a board given to solve
SolveCap == 2       \* largest column_size of a board given to solve
SolveTokens == 2    \* largest number of tokens of a board given to solve
SolveDepth == 1     \* largest depth given to solve
MaxIter == 2        \* largest iterations given to solve
FindTokens == 3     \* largest number of tokens of a board searched once
MaxDepth == 1       \* largest depth of a tree searched once
PathCols == 2       \* largest number of columns of a board whose best path is taken
PathCap == 3        \* largest column_size of such a board
PathTokens == 5     \* largest number of tokens of such a board
ReplayCols == 2     \* largest number of columns of a board solved and replayed
ReplayCap == 3      \* largest column_size of such a board
ReplayTokens == 4   \* largest number of tokens of such a board
ReplayDepth == 1    \* largest depth of a solve call whose list is replayed
ReplayIter == 2     \* largest iterations of such a call
MaxRankCols == 12   \* largest number of columns of two boards compared by rank
RankCap == 3        \* largest column_size of two boards compared by rank
RankLen == 2        \* longest input column of two boards compared by rank

(***************************************************************************)
(* The literals of main.                                                   *)
(***************************************************************************)
MainColumnSize == 4
MainDepth == 5
MainIterations == 100

VARIABLES
    column_size,    \* Puzzle.column_size of p
    colors_count,   \* Puzzle.colors_count of p: colour -> count (a HashMap)
    state,          \* Puzzle.state of p: sequence of columns
    status,         \* "ok", "panicked" (expect failed) or "diverged"
    last,           \* the last do_move call: its argument and the puzzle before
    pc,             \* position of the caller: "idle", "solve", "replay", "exit"
    depth,          \* argument of solve
    iterations,     \* argument of solve
    count,          \* local of solve
    game,           \* local of solve: state of the board `game` points to
    solve_moves,    \* local `moves` of solve, and afterwards its result
    score,          \* local of solve: score of the last cycle
    next_moves,     \* local of solve: path returned by the last find_best
    root,           \* the board the last cycle's tree was built from
    idx,            \* position of main's replay loop in the returned list
    prev            \* what earlier calls of solve returned, with their outcome

puzzle_vars == <<column_size, colors_count, state, status, last>>
solve_vars == <<pc, depth, iterations, count, game, solve_moves, score,
                next_moves, root, idx, prev>>
vars == <<column_size, colors_count, state, status, last, pc, depth,
          iterations, count, game, solve_moves, score, next_moves, root, idx,
          prev>>

Colors == 1..NumColors

Min(a, b) == IF a < b THEN a ELSE b

Col(st, i) == st[i + 1]

Top(col) == col[Len(col)]

Pop(col) == SubSeq(col, 1, Len(col) - 1)

Puzzle(cs, cc, st) == [column_size |-> cs, colors_count |-> cc, state |-> st]

\* The puzzle p of main.
P == Puzzle(column_size, colors_count, state)

(***************************************************************************)
(* Score and its ordering (enum Score, impl Ord).                          *)
(***************************************************************************)
Win == <<"Win">>

Score(s) == <<"Score", s>>

cmp(a, b) ==
    IF a = Win THEN "Greater"
    ELSE IF b = Win THEN "Less"
    ELSE IF a[2] < b[2] THEN "Less"
    ELSE IF a[2] > b[2] THEN "Greater"
    ELSE "Equal"

\* The comparison of find_best turned around: `a < b`.
score_lt(a, b) == cmp(a, b) = "Less"

\* `a > b` on Score: PartialOrd::gt through partial_cmp = Some(cmp).
score_gt(a, b) == cmp(a, b) = "Greater"

(***************************************************************************)
(* Puzzle::new                                                             *)
(***************************************************************************)
\* Number of occurrences of colour c in one column.
CountCol(col, c) == Cardinality({k \in 1..Len(col) : col[k] = c})

RECURSIVE CountIn(_, _)
\* Number of tokens of colour c found across all columns of st.
CountIn(st, c) ==
    IF st = <<>> THEN 0
    ELSE CountCol(Head(st), c) + CountIn(Tail(st), c)

ColorsOf(st) == UNION {{st[j][k] : k \in 1..Len(st[j])} : j \in 1..Len(st)}

RECURSIVE new_inner_loop(_, _, _, _)
\* The inner for loop of new over the slice col[..min(column_size, len)],
\* from its k-th token on: entry(c).or_insert(0) += 1, then vec.push(c).
new_inner_loop(cc, vec, slice, k) ==
    IF k > Len(slice) THEN [colors_count |-> cc, vec |-> vec]
    ELSE LET c == slice[k]
             cc1 == IF c \in DOMAIN cc
                    THEN [cc EXCEPT ![c] = @ + 1]
                    ELSE (c :> 1) @@ cc
         IN  new_inner_loop(cc1, Append(vec, c), slice, k + 1)

RECURSIVE new_loop(_, _, _, _, _)
\* The outer for loop of new from the j-th input column on.
new_loop(cs, init, j, cc, st) ==
    IF j > Len(init) THEN [colors_count |-> cc, state |-> st]
    ELSE LET col == init[j]
             r == new_inner_loop(cc, <<>>,
                                 SubSeq(col, 1, Min(cs, Len(col))), 1)
         IN  new_loop(cs, init, j + 1, r.colors_count, Append(st, r.vec))

new_state(cs, init) == new_loop(cs, init, 1, <<>>, <<>>).state

\* colors_count filled from the whole input columns, before the truncation.
new_colors_count_all(cs, init) ==
    new_loop(cs + Extra, init, 1, <<>>, <<>>).colors_count

new_colors_count(cs, init) == new_loop(cs, init, 1, <<>>, <<>>).colors_count

new(cs, init) ==
    Puzzle(cs, new_colors_count(cs, init), new_state(cs, init))

(***************************************************************************)
(* Puzzle::column_moves and Puzzle::moves                                  *)
(***************************************************************************)
RECURSIVE column_moves_loop(_, _, _, _)
\* The for loop of column_moves from destination index i on.
column_moves_loop(p, col, c, i) ==
    IF i >= Len(p.state) THEN <<>>
    ELSE LET dst == Col(p.state, i)
             rest == column_moves_loop(p, col, c, i + 1)
         IN  IF i = col THEN rest
             ELSE IF dst # <<>> /\ Top(dst) # c THEN rest
             ELSE IF Len(dst) < p.column_size THEN <<(<<col, i>>)>> \o rest
             ELSE rest

RECURSIVE column_moves_nocap_loop(_, _, _, _)
column_moves_nocap_loop(p, col, c, i) ==
    IF i >= Len(p.state) THEN <<>>
    ELSE LET dst == Col(p.state, i)
             rest == column_moves_nocap_loop(p, col, c, i + 1)
         IN  IF i = col THEN rest
             ELSE IF dst # <<>> /\ Top(dst) # c THEN rest
             ELSE <<(<<col, i>>)>> \o rest

\* column_moves without the test `dst.len() < self.column_size`.
column_moves_nocap(p, col) ==
    LET src == Col(p.state, col)
    IN  IF src = <<>> THEN <<>>
        ELSE column_moves_nocap_loop(p, col, Top(src), 0)

RECURSIVE column_moves_nocolor_loop(_, _, _)
column_moves_nocolor_loop(p, col, i) ==
    IF i >= Len(p.state) THEN <<>>
    ELSE LET dst == Col(p.state, i)
             rest == column_moves_nocolor_loop(p, col, i + 1)
         IN  IF i = col THEN rest
             ELSE IF Len(dst) < p.column_size THEN <<(<<col, i>>)>> \o rest
             ELSE rest

\* column_moves without the test of the destination's top colour.
column_moves_nocolor(p, col) ==
    LET src == Col(p.state, col)
    IN  IF src = <<>> THEN <<>>
        ELSE column_moves_nocolor_loop(p, col, 0)

column_moves(p, col) ==
    LET src == Col(p.state, col)
    IN  IF src = <<>> THEN <<>>
        ELSE column_moves_loop(p, col, Top(src), 0)

RECURSIVE moves_loop(_, _)
moves_loop(p, i) ==
    IF i >= Len(p.state) THEN <<>>
    ELSE column_moves(p, i) \o moves_loop(p, i + 1)

moves(p) == moves_loop(p, 0)

Range(s) == {s[k] : k \in 1..Len(s)}

(***************************************************************************)
(* Puzzle::do_move                                                         *)
(***************************************************************************)
RECURSIVE do_move_loop(_, _, _, _, _)
\* The while loop of do_move: pop_if on the source, push on the destination.
do_move_loop(st, cs, from, to, color) ==
    IF /\ Len(Col(st, to)) < cs
       /\ Col(st, from) # <<>>
       /\ Top(Col(st, from)) = color
    THEN LET c == Top(Col(st, from))
             popped == [st EXCEPT ![from + 1] = Pop(@)]
             pushed == [popped EXCEPT ![to + 1] = Append(@, c)]
         IN  do_move_loop(pushed, cs, from, to, color)
    ELSE st

\* do_move that pops the top token of the source and never pushes it.
do_move_lossy(st, cs, m) ==
    IF Len(Col(st, m[2])) < cs
    THEN [st EXCEPT ![m[1] + 1] = Pop(@)]
    ELSE st

RECURSIVE do_move_nocap_loop(_, _, _, _)
do_move_nocap_loop(st, from, to, color) ==
    IF Col(st, from) # <<>> /\ Top(Col(st, from)) = color
    THEN LET popped == [st EXCEPT ![from + 1] = Pop(@)]
             pushed == [popped EXCEPT ![to + 1] = Append(@, color)]
         IN  do_move_nocap_loop(pushed, from, to, color)
    ELSE st

\* do_move without the test `self.state[to].len() < self.column_size`.
do_move_nocap(st, cs, m) ==
    IF m[1] = m[2] THEN st
    ELSE do_move_nocap_loop(st, m[1], m[2], Top(Col(st, m[1])))

\* do_move that transfers a single token instead of the whole run.
do_move_single(st, cs, m) ==
    IF Len(Col(st, m[2])) < cs
    THEN LET c == Top(Col(st, m[1]))
             popped == [st EXCEPT ![m[1] + 1] = Pop(@)]
         IN  [popped EXCEPT ![m[2] + 1] = Append(@, c)]
    ELSE st

\* The board after do_move(Move(from, to)) returns; the source is non-empty.
do_move(st, cs, m) ==
    do_move_loop(st, cs, m[1], m[2], Top(Col(st, m[1])))

\* The emptiness test made on the destination instead of the source.
do_move_panics_dst(st, m) == Col(st, m[2]) = <<>>

\* do_move panics in expect() when the source column is empty.
do_move_panics(st, m) == Col(st, m[1]) = <<>>

\* With from = to and a column that is not full, every iteration pops the
\* top token and pushes it back: the loop condition never becomes false.
do_move_diverges(st, cs, m) ==
    /\ Col(st, m[1]) # <<>>
    /\ m[1] = m[2]
    /\ Len(Col(st, m[1])) < cs

(***************************************************************************)
(* Puzzle::rank                                                            *)
(***************************************************************************)
Monochrome(col) == \A k \in 1..Len(col) : col[k] = Top(col)

RECURSIVE rank_loop_nomoves(_, _, _, _)
\* The loop of rank without `score += self.column_moves(i).len()`.
rank_loop_nomoves(p, i, sc, done) ==
    IF i >= Len(p.state) THEN [score |-> sc, done |-> done]
    ELSE LET col == Col(p.state, i)
             n == Len(p.state)
         IN  IF col # <<>>
             THEN IF Monochrome(col)
                  THEN IF Len(col) = p.colors_count[Top(col)]
                       THEN rank_loop_nomoves(p, i + 1, sc + 1000 * n, done)
                       ELSE rank_loop_nomoves(p, i + 1, sc + 100 * n, FALSE)
                  ELSE rank_loop_nomoves(p, i + 1, sc, FALSE)
             ELSE rank_loop_nomoves(p, i + 1, sc + 10 * n, done)

RECURSIVE rank_loop(_, _, _, _)
\* The for loop of rank from column index i on, with the locals score, done.
rank_loop(p, i, sc, done) ==
    IF i >= Len(p.state) THEN [score |-> sc, done |-> done]
    ELSE LET col == Col(p.state, i)
             n == Len(p.state)
             s1 == sc + Len(column_moves(p, i))
         IN  IF col # <<>>
             THEN IF Monochrome(col)
                  THEN IF Len(col) = p.colors_count[Top(col)]
                       THEN rank_loop(p, i + 1, s1 + 1000 * n, done)
                       ELSE rank_loop(p, i + 1, s1 + 100 * n, FALSE)
                  ELSE rank_loop(p, i + 1, s1, FALSE)
             ELSE rank_loop(p, i + 1, s1 + 10 * n, done)

RECURSIVE rank_partial_done_loop(_, _, _, _)
rank_partial_done_loop(p, i, sc, done) ==
    IF i >= Len(p.state) THEN [score |-> sc, done |-> done]
    ELSE LET col == Col(p.state, i)
             n == Len(p.state)
             s1 == sc + Len(column_moves(p, i))
         IN  IF col # <<>>
             THEN IF Monochrome(col)
                  THEN IF Len(col) = p.colors_count[Top(col)]
                       THEN rank_partial_done_loop(p, i + 1, s1 + 1000 * n, done)
                       ELSE rank_partial_done_loop(p, i + 1, s1 + 100 * n, done)
                  ELSE rank_partial_done_loop(p, i + 1, s1, FALSE)
             ELSE rank_partial_done_loop(p, i + 1, s1 + 10 * n, done)

\* rank that forgets `done = false` for a partially collected colour.
rank_partial_done(p) ==
    LET r == rank_partial_done_loop(p, 0, 0, TRUE)
    IN  IF r.done THEN Win ELSE Score(r.score)

rank(p) ==
    LET r == rank_loop(p, 0, 0, TRUE)
    IN  IF r.done THEN Win ELSE Score(r.score)

(***************************************************************************)
(* Initial states: the board right after Puzzle::new.                      *)
(***************************************************************************)
NoMove == [kind |-> "none", move |-> <<0, 0>>, before |-> Puzzle(0, <<>>, <<>>)]

None == <<"None">>

RECURSIVE SumTo(_, _)
\* lens[1] + ... + lens[j]
SumTo(lens, j) == IF j = 0 THEN 0 ELSE lens[j] + SumTo(lens, j - 1)

\* Colours are compared for equality only (type Color, HashMap keys), so
\* the inputs are taken up to renaming of the colours: the k-th new colour
\* met when reading the tokens in order is colour k.
Canonical(flat) ==
    \A k \in 1..Len(flat) :
       \/ flat[k] = 1
       \/ \E i \in 1..(k - 1) : flat[i] = flat[k] - 1

\* The inputs `init` of Puzzle::new with n columns of at most maxlen tokens
\* each and at most total tokens altogether.
Inputs(n, maxlen, total) ==
    UNION {{[j \in 1..n |->
               SubSeq(flat, SumTo(lens, j - 1) + 1, SumTo(lens, j))] :
            flat \in {f \in [1..SumTo(lens, n) -> Colors] : Canonical(f)}} :
           lens \in {l \in [1..n -> 0..maxlen] : SumTo(l, n) <= total}}

InitPuzzle(cs, init) ==
    /\ column_size = cs
    /\ colors_count = new_colors_count(cs, init)
    /\ state = new_state(cs, init)
    /\ status = "ok"
    /\ last = NoMove

\* The board right after Puzzle::new, with the arguments of the call kept in
\* `last`: before.column_size is column_size and before.state is init.
InitNew(cs, init) ==
    /\ column_size = cs
    /\ colors_count = new_colors_count(cs, init)
    /\ state = new_state(cs, init)
    /\ status = "ok"
    /\ last = [kind |-> "new", move |-> <<0, 0>>,
               before |-> Puzzle(cs, <<>>, init)]

SolverIdle ==
    /\ pc = "idle"
    /\ depth = 0
    /\ iterations = 0
    /\ count = 0
    /\ game = <<>>
    /\ solve_moves = <<>>
    /\ score = None
    /\ next_moves = <<>>
    /\ root = <<>>
    /\ idx = 0
    /\ prev = {}

Init ==
    /\ \E cs \in 0..MaxCap, n \in 0..MaxCols :
          \E init \in Inputs(n, cs + Extra, MaxTokens) :
             InitPuzzle(cs, init)
    /\ SolverIdle

(***************************************************************************)
(* A caller applies a move to p: any pair of valid column indices.         *)
(***************************************************************************)
DoMove ==
    /\ pc = "idle"
    /\ status = "ok"
    /\ \E from \in 0..(Len(state) - 1), to \in 0..(Len(state) - 1) :
          LET m == <<from, to>>
          IN  /\ last' = [kind |-> "do_move", move |-> m, before |-> P]
              /\ IF do_move_panics(state, m)
                 THEN status' = "panicked" /\ state' = state
                 ELSE IF do_move_diverges(state, column_size, m)
                 THEN status' = "diverged" /\ state' = state
                 ELSE status' = "ok" /\ state' = do_move(state, column_size, m)
    /\ UNCHANGED <<column_size, colors_count>>
    /\ UNCHANGED solve_vars

Next == DoMove

Spec == Init /\ [][Next]_vars

InitConstruct ==
    /\ \E cs \in 0..MaxCap, n \in 0..MaxCols :
          \E init \in Inputs(n, cs + Extra, MaxTokens) :
             InitNew(cs, init)
    /\ SolverIdle

SpecConstruct == InitConstruct /\ [][Next]_vars

(***************************************************************************)
(* A caller builds a second puzzle with as many columns as p and compares  *)
(* the ranks of the two.  The inputs of Puzzle::new are k empty columns    *)
(* followed by equal columns; `last` keeps the second puzzle in `before`   *)
(* and `score` the rank of p.                                              *)
(***************************************************************************)
RankShapes == UNION {[1..l -> Colors] : l \in 0..RankLen}

BlockInput(n, k, shape) == [j \in 1..n |-> IF j <= k THEN <<>> ELSE shape]

InitRank ==
    /\ \E cs \in 1..RankCap, n \in 1..MaxRankCols :
          \E k \in 0..n, shape \in RankShapes :
             InitPuzzle(cs, BlockInput(n, k, shape))
    /\ SolverIdle

Compare ==
    /\ pc = "idle"
    /\ last.kind = "none"
    /\ \E cs \in 1..RankCap, shape \in RankShapes :
          last' = [kind |-> "rank", move |-> <<0, 0>>,
                   before |-> new(cs, BlockInput(Len(state), 0, shape))]
    /\ score' = rank(P)
    /\ UNCHANGED <<column_size, colors_count, state, status>>
    /\ UNCHANGED <<pc, depth, iterations, count, game, solve_moves,
                   next_moves, root, idx, prev>>

SpecRank == InitRank /\ [][Compare]_vars

(***************************************************************************)
(* Puzzle::moves_tree and Puzzle::moves_map.  A MoveTree is a record with  *)
(* the fields game (a Puzzle) and children (a function from Move to        *)
(* MoveTree, the HashMap).                                                 *)
(***************************************************************************)
MoveTree(g, ch) == [game |-> g, children |-> ch]

\* game.do_move(m) on a clone of p.
moved(p, m) == [p EXCEPT !.state = do_move(p.state, p.column_size, m)]

RECURSIVE moves_map_deep(_, _)
\* moves_map that tests the depth after building a level: one level more.
moves_map_deep(p, d) ==
    [m \in Range(moves(p)) |->
       LET g == moved(p, m)
       IN  MoveTree(g, IF d = 0 THEN [x \in {} |-> MoveTree(g, <<>>)]
                       ELSE moves_map_deep(g, d - 1))]

RECURSIVE moves_map(_, _)
moves_map(p, d) ==
    IF d = 0 THEN [m \in {} |-> MoveTree(p, <<>>)]
    ELSE [m \in Range(moves(p)) |->
            LET g == moved(p, m) IN MoveTree(g, moves_map(g, d - 1))]

moves_tree(p, d) == MoveTree(p, moves_map(p, d))

(***************************************************************************)
(* MoveTree::find_best.  A result is the triple (game, score, moves).  The *)
(* for loop runs over the HashMap in an unspecified order, so find_best    *)
(* yields the set of the results the loop can produce.  The loop keeps the *)
(* first child whose score is strictly greater than every score before it, *)
(* so its result is fixed by the child that comes first among the best     *)
(* ones: it is enough to run the loop once for every child put in front of *)
(* the others.                                                             *)
(***************************************************************************)
Result(g, sc, ms) == [game |-> g, score |-> sc, moves |-> ms]

RECURSIVE find_best_loop(_, _)
\* The for loop of find_best over the children in the order `order`, a
\* sequence of pairs <<m, r>> where r is what tree.find_best() returns for
\* the child of move m.
find_best_loop(best, order) ==
    IF order = <<>> THEN best
    ELSE LET m == Head(order)[1]
             r == Head(order)[2]
             b == IF score_gt(r.score, best.score)
                  THEN Result(r.game, r.score, <<m>> \o r.moves)
                  ELSE best
         IN  IF b.score = Win THEN b
             ELSE find_best_loop(b, Tail(order))

\* An enumeration order of the children that starts with the entry e0.
OrderFrom(entries, e0) ==
    <<e0>> \o SelectSeq(entries, LAMBDA x : x[1] # e0[1])

RECURSIVE find_best(_)
RECURSIVE children_results(_, _)
\* Every key of `keys` paired with the results find_best can return for its
\* child, computed once per child.
children_results(tree, keys) ==
    IF keys = <<>> THEN <<>>
    ELSE LET m == Head(keys)
         IN  <<(<<m, find_best(tree.children[m])>>)>>
                \o children_results(tree, Tail(keys))

RECURSIVE any_result(_)
\* One result per child, for the children that are not put in front.
any_result(subs) ==
    IF subs = <<>> THEN <<>>
    ELSE LET p == Head(subs)
         IN  <<(<<p[1], CHOOSE r \in p[2] : TRUE>>)>> \o any_result(Tail(subs))

\* The HashMap enumerates the children in an order the program does not
\* fix; the loop keeps the first child it meets among those of greatest
\* score, so it is run once for every child put in front, with every
\* result that child can return.  The keys of tree.children are the moves
\* of tree.game whenever the map is not empty.
find_best(tree) ==
    LET g == tree.game
        sc == rank(g)
    IN  IF sc = Win \/ DOMAIN tree.children = {}
        THEN {Result(g, sc, <<>>)}
        ELSE LET subs == children_results(tree, moves(g))
                 any == any_result(subs)
             IN  UNION {{find_best_loop(Result(g, Score(0), <<>>),
                                        OrderFrom(any, <<subs[i][1], r0>>)) :
                           r0 \in subs[i][2]} :
                        i \in 1..Len(subs)}

(***************************************************************************)
(* Puzzle::solve, one action per iteration of its while loop, and the loop *)
(* of main that replays the returned moves on p.                           *)
(***************************************************************************)
\* The puzzle `game` of solve: a clone of p, or a board of the last tree.
G == Puzzle(column_size, colors_count, game)

\* The test of the while loop of solve, with a `<=` variant.
loop_test_le(c, it) == c <= it

loop_test(c, it) == c < it

\* solve(d, it) has been entered: lines 201-204 are done and the while loop
\* is about to run, or is skipped at once.
SolveEntry(d, it) ==
    /\ pc = IF loop_test(0, it) THEN "solve" ELSE "replay"
    /\ depth = d
    /\ iterations = it
    /\ count = 0
    /\ game = state
    /\ solve_moves = <<>>
    /\ score = None
    /\ next_moves = <<>>
    /\ root = <<>>
    /\ idx = 0

InitSolve ==
    /\ \E cs \in 0..SolveCap, n \in 0..SolveCols :
          \E init \in Inputs(n, cs, SolveTokens) :
             InitPuzzle(cs, init)
    /\ \E d \in 0..SolveDepth, it \in 0..MaxIter : SolveEntry(d, it)
    /\ prev = {}

\* solve called for a single iteration: one tree, one find_best.
InitFind ==
    /\ \E cs \in 0..SolveCap, n \in 0..SolveCols :
          \E init \in Inputs(n, cs, FindTokens) :
             InitPuzzle(cs, init)
    /\ \E d \in 0..MaxDepth : SolveEntry(d, 1)
    /\ prev = {}

\* solve called for a single iteration on boards with few, long columns.
InitPath ==
    /\ \E cs \in 0..PathCap, n \in 0..PathCols :
          \E init \in Inputs(n, cs, PathTokens) :
             InitPuzzle(cs, init)
    /\ \E d \in 0..MaxDepth : SolveEntry(d, 1)
    /\ prev = {}

\* main on any small board: solve, then the returned moves replayed on it.
InitReplay ==
    /\ \E cs \in 0..ReplayCap, n \in 0..ReplayCols :
          \E init \in Inputs(n, cs, ReplayTokens) :
             InitPuzzle(cs, init)
    /\ \E d \in 0..ReplayDepth, it \in 0..ReplayIter : SolveEntry(d, it)
    /\ prev = {}

InitMain ==
    /\ InitPuzzle(MainColumnSize,
                  <<(<<1, 2, 3, 4>>), (<<1, 2, 3, 4>>), <<>>, <<>>, <<>>>>)
    /\ SolveEntry(MainDepth, MainIterations)
    /\ prev = {}

\* An iteration of solve without the break on Score::Win.
SolveCycle_nobreak ==
    /\ pc = "solve"
    /\ loop_test(count, iterations)
    /\ \E r \in find_best(moves_tree(G, depth)) :
          /\ root' = game
          /\ score' = r.score
          /\ next_moves' = r.moves
          /\ solve_moves' = solve_moves \o r.moves
          /\ game' = r.game.state
          /\ count' = count + 1
          /\ pc' = IF loop_test(count + 1, iterations)
                   THEN "solve" ELSE "replay"
    /\ UNCHANGED <<depth, iterations, idx, prev>>
    /\ UNCHANGED puzzle_vars

\* An iteration of solve without `game = new_game`.
SolveCycle_stale ==
    /\ pc = "solve"
    /\ loop_test(count, iterations)
    /\ \E r \in find_best(moves_tree(G, depth)) :
          /\ root' = game
          /\ score' = r.score
          /\ next_moves' = r.moves
          /\ solve_moves' = solve_moves \o r.moves
          /\ IF r.score = Win
             THEN /\ pc' = "replay"
                  /\ UNCHANGED <<game, count>>
             ELSE /\ game' = game
                  /\ count' = count + 1
                  /\ pc' = IF loop_test(count + 1, iterations)
                           THEN "solve" ELSE "replay"
    /\ UNCHANGED <<depth, iterations, idx, prev>>
    /\ UNCHANGED puzzle_vars

\* One iteration of the while loop of solve; the loop ends by break or when
\* the test count < iterations fails after the increment.
SolveCycle ==
    /\ pc = "solve"
    /\ loop_test(count, iterations)
    /\ \E r \in find_best(moves_tree(G, depth)) :
          /\ root' = game
          /\ score' = r.score
          /\ next_moves' = r.moves
          /\ solve_moves' = solve_moves \o r.moves
          /\ IF r.score = Win
             THEN /\ pc' = "replay"
                  /\ UNCHANGED <<game, count>>
             ELSE /\ game' = r.game.state
                  /\ count' = count + 1
                  /\ pc' = IF loop_test(count + 1, iterations)
                           THEN "solve" ELSE "replay"
    /\ UNCHANGED <<depth, iterations, idx, prev>>
    /\ UNCHANGED puzzle_vars

\* One iteration of `for m in moves` of main: p.do_move(m).
Replay ==
    /\ pc = "replay"
    /\ status = "ok"
    /\ idx < Len(solve_moves)
    /\ LET m == solve_moves[idx + 1]
       IN  /\ last' = [kind |-> "do_move", move |-> m, before |-> P]
           /\ IF do_move_panics(state, m)
              THEN status' = "panicked" /\ state' = state
              ELSE IF do_move_diverges(state, column_size, m)
              THEN status' = "diverged" /\ state' = state
              ELSE status' = "ok" /\ state' = do_move(state, column_size, m)
    /\ idx' = idx + 1
    /\ UNCHANGED <<column_size, colors_count>>
    /\ UNCHANGED <<pc, depth, iterations, count, game, solve_moves, score,
                   next_moves, root, prev>>

\* main returns after the last move.
Exit ==
    /\ pc = "replay"
    /\ status = "ok"
    /\ idx = Len(solve_moves)
    /\ pc' = "exit"
    /\ UNCHANGED puzzle_vars
    /\ UNCHANGED <<depth, iterations, count, game, solve_moves, score,
                   next_moves, root, idx, prev>>

NextSolve == SolveCycle

SpecSolve == InitSolve /\ [][NextSolve]_vars

SpecFind == InitFind /\ [][NextSolve]_vars

SpecPath == InitPath /\ [][NextSolve]_vars

NextMain == SolveCycle \/ Replay \/ Exit

SpecMain == InitMain /\ [][NextMain]_vars

SpecReplay == InitReplay /\ [][NextMain]_vars

(***************************************************************************)
(* A caller that keeps what solve returned, builds a second puzzle with    *)
(* Puzzle::new and calls solve on it.                                      *)
(***************************************************************************)
SolveAgain ==
    /\ pc = "replay"
    /\ prev = {}
    /\ prev' = {[moves |-> solve_moves, won |-> (score = Win),
                  depth |-> depth, iterations |-> iterations]}
    /\ \E cs \in 0..SolveCap, n \in 0..SolveCols :
          \E init \in Inputs(n, cs, SolveTokens) :
             /\ column_size' = cs
             /\ colors_count' = new_colors_count(cs, init)
             /\ state' = new_state(cs, init)
             /\ game' = new_state(cs, init)
    /\ status' = "ok"
    /\ last' = NoMove
    /\ \E d \in 0..SolveDepth, it \in 0..MaxIter :
          /\ depth' = d
          /\ iterations' = it
          /\ pc' = IF loop_test(0, it) THEN "solve" ELSE "replay"
    /\ count' = 0
    /\ solve_moves' = <<>>
    /\ score' = None
    /\ next_moves' = <<>>
    /\ root' = <<>>
    /\ idx' = 0

NextTwoCalls == SolveCycle \/ SolveAgain

SpecTwoCalls == InitSolve /\ [][NextTwoCalls]_vars

(***************************************************************************)
(* Properties of the board operations, checked under Spec.                 *)
(***************************************************************************)
Moved == last.kind = "do_move" /\ status = "ok"

Before == last.before.state

From == last.move[1]

To == last.move[2]

Generated == last.kind = "do_move" /\ last.move \in Range(moves(last.before))

\* Length of the maximal run of the top colour at the top of a column.
RunLen(col) ==
    IF col = <<>> THEN 0
    ELSE Cardinality({k \in 1..Len(col) :
                        \A j \in k..Len(col) : col[j] = Top(col)})

Recorded(c) == IF c \in DOMAIN colors_count THEN colors_count[c] ELSE 0

\* C1: in every reachable board, for every colour, the number of tokens of
\* that colour across all columns equals the count recorded in colors_count
\* at construction.
C1_Conservation ==
    /\ \A c \in Colors : CountIn(state, c) = Recorded(c)
    /\ colors_count = last.before.colors_count \/ last.kind = "none"

C1_Witness ==
    /\ Moved
    /\ state # Before
    /\ \E c \in DOMAIN colors_count : colors_count[c] >= 2

\* C2: every column of every reachable board holds at most column_size
\* tokens, after construction from over-long inputs and after any do_move
\* with a non-empty source, generated or not.
C2_Capacity == \A j \in 1..Len(state) : Len(state[j]) <= column_size

C2_Witness ==
    /\ Moved
    /\ ~Generated
    /\ state # Before
    /\ Len(Col(state, To)) = column_size
    /\ Col(state, From) # <<>>
    /\ Top(Col(state, From)) = Top(Col(state, To))

\* C3: a move returned by moves() never hits the empty-source failure, and
\* applying it transfers at least one token, places on a non-empty
\* destination only tokens of the colour of its previous top, and leaves the
\* destination with at most column_size tokens.
C3_GeneratedMoveSafe ==
    /\ \A k \in 1..Len(moves(P)) : ~do_move_panics(state, moves(P)[k])
    /\ Generated =>
         LET dst == Col(Before, To)
             dst2 == Col(state, To)
         IN  /\ status = "ok"
             /\ Len(dst2) > Len(dst)
             /\ Len(Col(state, From)) < Len(Col(Before, From))
             /\ SubSeq(dst2, 1, Len(dst)) = dst
             /\ dst # <<>> =>
                  \A k \in (Len(dst) + 1)..Len(dst2) : dst2[k] = Top(dst)
             /\ Len(dst2) <= column_size

C3_Witness ==
    /\ Generated
    /\ Col(Before, To) # <<>>
    /\ Len(Col(state, To)) >= Len(Col(Before, To)) + 2

Complete(p, col) ==
    /\ \A k \in 1..Len(col) : col[k] = col[1]
    /\ Len(col) = p.colors_count[col[1]]

Solved(p) ==
    \A j \in 1..Len(p.state) :
       p.state[j] = <<>> \/ Complete(p, p.state[j])

\* C4: rank returns Win exactly when every column is empty or holds a single
\* colour with as many tokens as colors_count records for it; otherwise it
\* returns a numeric Score.
C4_RankWin ==
    /\ rank(P) = Win <=> Solved(P)
    /\ ~Solved(P) => rank(P)[1] = "Score" /\ rank(P)[2] \in Nat

C4_Witness ==
    /\ Moved
    /\ rank(P) = Win
    /\ rank(last.before) # Win
    /\ Cardinality({j \in 1..Len(state) : state[j] # <<>>}) >= 2

\* C7: do_move(Move(src, dst)) with src # dst and src non-empty moves exactly
\* min(k, f) tokens from the top of src to the top of dst, k the length of
\* the top run of src and f the free slots of dst; the rest of src, the
\* previous contents of dst, the other columns, column_size and colors_count
\* are unchanged.
C7_Pour ==
    (last.kind = "do_move" /\ From # To /\ Col(Before, From) # <<>>) =>
       LET src == Col(Before, From)
           dst == Col(Before, To)
           k == RunLen(src)
           f == last.before.column_size - Len(dst)
           t == Min(k, f)
       IN  /\ status = "ok"
           /\ Len(state) = Len(Before)
           /\ Col(state, From) = SubSeq(src, 1, Len(src) - t)
           /\ Col(state, To) = dst \o [j \in 1..t |-> Top(src)]
           /\ \A i \in 0..(Len(state) - 1) :
                 (i # From /\ i # To) => Col(state, i) = Col(Before, i)
           /\ column_size = last.before.column_size
           /\ colors_count = last.before.colors_count

C7_Witness ==
    /\ last.kind = "do_move"
    /\ From # To
    /\ RunLen(Col(Before, From)) = 2
    /\ column_size - Len(Col(Before, To)) = 1
    /\ Len(Col(state, To)) = Len(Col(Before, To)) + 1
    /\ Len(Col(state, From)) = Len(Col(Before, From)) - 1
    /\ Top(Col(state, From)) = Top(Col(state, To))

Legal(p, src, dst) ==
    /\ Col(p.state, src) # <<>>
    /\ dst # src
    /\ Len(Col(p.state, dst)) < p.column_size
    /\ \/ Col(p.state, dst) = <<>>
       \/ Top(Col(p.state, dst)) = Top(Col(p.state, src))

LexLess(a, b) == a[1] < b[1] \/ (a[1] = b[1] /\ a[2] < b[2])

\* C8: moves() returns, without duplicates and in ascending order of
\* (source, destination), exactly the legal pairs; column_moves of an empty
\* column is empty.
C8_MovesExact ==
    LET ms == moves(P)
        n == Len(state)
    IN  /\ Range(ms) = {m \in (0..(n - 1)) \X (0..(n - 1)) : Legal(P, m[1], m[2])}
        /\ \A a, b \in 1..Len(ms) : a < b => LexLess(ms[a], ms[b])
        /\ \A col \in 0..(n - 1) :
              Col(state, col) = <<>> => column_moves(P, col) = <<>>
        /\ \A col \in 0..(n - 1) :
              \A k \in 1..Len(column_moves(P, col)) :
                 column_moves(P, col)[k][1] = col

C8_Witness ==
    /\ Moved
    /\ Len(moves(P)) >= 2
    /\ \E s, d \in 0..(Len(state) - 1) :
          /\ s # d
          /\ Col(state, s) # <<>>
          /\ Col(state, d) # <<>>
          /\ Len(Col(state, d)) < column_size
          /\ Top(Col(state, d)) # Top(Col(state, s))
    /\ \E d \in 0..(Len(state) - 1) :
          Col(state, d) # <<>> /\ Len(Col(state, d)) = column_size
    /\ \E d \in 0..(Len(state) - 1) : Col(state, d) = <<>>

\* C11: do_move with an empty source column panics, whatever the destination,
\* and leaves every column, column_size and colors_count as they were; with
\* a non-empty source it never panics.
C11_EmptySourcePanics ==
    last.kind = "do_move" =>
       /\ (Col(Before, From) = <<>>) <=> (status = "panicked")
       /\ status = "panicked" =>
            /\ state = Before
            /\ column_size = last.before.column_size
            /\ colors_count = last.before.colors_count

C11_Witness ==
    /\ last.kind = "do_move"
    /\ status = "panicked"
    /\ From # To
    /\ Col(state, From) = <<>>
    /\ Col(state, To) # <<>>
    /\ Len(Col(state, To)) < column_size

\* The first min(cs, len) tokens of an input column.
Truncated(cs, col) == [k \in 1..Min(cs, Len(col)) |-> col[k]]

\* C12: Puzzle::new(column_size, init) gives one column per input column,
\* in order, each the first min(column_size, len) tokens of its input
\* column; colors_count has an entry exactly for the colours that occur in
\* the truncated columns, with their number of occurrences there.
C12_Construct ==
    last.kind = "new" =>
       LET cs == last.before.column_size
           init == last.before.state
           kept == [j \in 1..Len(init) |-> Truncated(cs, init[j])]
       IN  /\ column_size = cs
           /\ Len(state) = Len(init)
           /\ \A j \in 1..Len(init) : state[j] = kept[j]
           /\ DOMAIN colors_count =
                 {c \in Colors : \E j \in 1..Len(init) : CountCol(kept[j], c) > 0}
           /\ \A c \in DOMAIN colors_count :
                 colors_count[c] = CountIn(kept, c)

\* A column is cut, and colour 2 occurs in dropped tokens only.
C12_Witness ==
    /\ last.kind = "new"
    /\ \E j \in 1..Len(state) :
          /\ Len(last.before.state[j]) > column_size
          /\ state[j] # <<>>
    /\ CountIn(last.before.state, 2) > 0
    /\ 2 \notin DOMAIN colors_count

\* Every column is full and holds a single colour.
FullMonochrome(p) ==
    \A j \in 1..Len(p.state) :
       /\ Len(p.state[j]) = p.column_size
       /\ Monochrome(p.state[j])

\* C13: on a board in which every column is full and holds a single colour,
\* moves() returns the empty list.
C13_FullBoardNoMoves == FullMonochrome(P) => moves(P) = <<>>

C13_Witness ==
    /\ FullMonochrome(P)
    /\ column_size >= 1
    /\ \E i, j \in 1..Len(state) : i # j /\ Top(state[i]) = Top(state[j])
    /\ moves(P) = <<>>

\* Number of legal moves whose source is the column of index col.
LegalFrom(p, col) ==
    Cardinality({d \in 0..(Len(p.state) - 1) : Legal(p, col, d)})

\* The bonus of one column on a board of n columns.
Bonus(p, col) ==
    LET n == Len(p.state)
    IN  IF col = <<>> THEN 10 * n
        ELSE IF ~Monochrome(col) THEN 0
        ELSE IF Len(col) = p.colors_count[Top(col)] THEN 1000 * n
        ELSE 100 * n

RECURSIVE RankSum(_, _)
\* Moves and bonus summed over the columns of index 0..(k - 1).
RankSum(p, k) ==
    IF k = 0 THEN 0
    ELSE RankSum(p, k - 1) + LegalFrom(p, k - 1) + Bonus(p, Col(p.state, k - 1))

\* C14: on a board that is not solved, rank() returns Score(s), s the sum
\* over the columns of the number of legal moves from the column plus its
\* bonus: 10*n if empty, 1000*n if monochrome with all tokens of its colour,
\* 100*n if monochrome with fewer, 0 if mixed; n is the number of columns.
C14_RankFormula ==
    ~Solved(P) => rank(P) = Score(RankSum(P, Len(state)))

\* An unsolved board reached by a move with a complete column, a partial
\* column and a legal move; the same column contents earn the smaller bonus
\* when tokens of the colour are elsewhere.
C14_Witness ==
    /\ Moved
    /\ ~Solved(P)
    /\ moves(P) # <<>>
    /\ \E i, j \in 1..Len(state) :
          /\ Bonus(P, state[i]) = 1000 * Len(state)
          /\ Bonus(P, state[j]) = 100 * Len(state)

\* Number of columns of p with the given bonus per column: 10 for empty,
\* 100 for partial monochrome, 1000 for complete monochrome.
Columns(p, bonus) ==
    Cardinality({j \in 1..Len(p.state) :
                   Bonus(p, p.state[j]) = bonus * Len(p.state)})

\* a has at least as many columns as b in each of the three categories and
\* more in one of them.
Dominates(a, b) ==
    /\ \A bonus \in {10, 100, 1000} : Columns(a, bonus) >= Columns(b, bonus)
    /\ \E bonus \in {10, 100, 1000} : Columns(a, bonus) > Columns(b, bonus)

\* C15: for two unsolved boards with the same number of columns, if p has
\* at least as many empty, partial monochrome and complete monochrome
\* columns as the other board and more in one category, then rank(p) >
\* rank(other), whatever the numbers of legal moves.
C15_StructureDominates ==
    (/\ last.kind = "rank"
     /\ Len(last.before.state) = Len(state)
     /\ ~Solved(P)
     /\ ~Solved(last.before)
     /\ Dominates(P, last.before)) =>
       score_gt(score, rank(last.before))

(***************************************************************************)
(* Properties of solve and find_best.                                      *)
(***************************************************************************)
\* solve has returned its move list to the caller.
Returned == pc \in {"replay", "exit"}

\* The tree of the last cycle of solve.
LastTree == moves_tree(Puzzle(column_size, colors_count, root), depth)

RECURSIVE Nodes(_, _)
\* The nodes of moves_tree(p, d), each as the pair of its board and of the
\* depth its subtree was built with: the node is moves_tree(n[1], n[2]).
Nodes(p, d) ==
    {<<p, d>>} \cup
    (IF d = 0 THEN {}
     ELSE UNION {Nodes(moved(p, m), d - 1) : m \in Range(moves(p))})

LastNodes == Nodes(Puzzle(column_size, colors_count, root), depth)

Max(S) == CHOOSE x \in S : \A y \in S : y <= x

RECURSIVE TreeHeight(_)
TreeHeight(tree) ==
    LET hs == {TreeHeight(tree.children[m]) : m \in DOMAIN tree.children}
    IN  IF hs = {} THEN 0 ELSE 1 + Max(hs)

\* C5: from the board of main (two columns 1,2,3,4 and three empty columns,
\* capacity 4), solve(5, 100) returns after a cycle whose score is Win,
\* whatever the enumeration order of the children, and replaying the
\* returned moves on p gives a board of rank Win in which every colour fills
\* a column of its own with all its tokens.
C5_MainSolved ==
    /\ status = "ok"
    /\ Returned => score = Win
    /\ pc = "exit" =>
         /\ idx = Len(solve_moves)
         /\ rank(P) = Win
         /\ DOMAIN colors_count = 1..4
         /\ \A c \in DOMAIN colors_count :
               \E j \in 1..Len(state) :
                  state[j] = [k \in 1..colors_count[c] |-> c]
         /\ \A j \in 1..Len(state) :
               state[j] = <<>> \/ \A k \in 1..Len(state[j]) : state[j][k] = state[j][1]

C5_Witness ==
    /\ pc = "exit"
    /\ count = 1
    /\ Len(solve_moves) > MainDepth
    /\ rank(P) = Win

\* The number of iterations of the while loop of solve run so far.
Cycles == count + (IF score = Win THEN 1 ELSE 0)

C6_Caps ==
    /\ Cycles <= iterations
    /\ Returned => (score = Win \/ count = iterations)
    /\ score = Win => Returned
    /\ Len(next_moves) <= depth
    /\ pc = "solve" =>
         /\ count < iterations
         /\ TreeHeight(moves_tree(G, depth)) <= depth
         /\ find_best(moves_tree(G, depth)) # {}

\* Every iteration that does not return increments count.
C6_Progress ==
    (pc = "solve" /\ pc' = "solve") => (count' = count + 1 /\ score' # Win)

\* C6: solve returns after at most `iterations` iterations of its loop: an
\* iteration can always run, it returns or increments count, and count
\* never exceeds iterations; each iteration explores and commits move
\* sequences of at most `depth` moves; solve returns before the cap only
\* after an iteration whose score is Win.
C6_Termination == []C6_Caps /\ [][C6_Progress]_vars

C6_Witness ==
    /\ Returned
    /\ score # Win
    /\ count = iterations
    /\ iterations = 2
    /\ Len(solve_moves) = 2
    /\ game # state

ScoreLeq(a, b) == b = Win \/ (a # Win /\ a[2] <= b[2])

MaxScore(S) == CHOOSE v \in S : \A w \in S : ScoreLeq(w, v)

\* The score find_best returns for a node.
Value(tree) == (CHOOSE r \in find_best(tree) : TRUE).score

ChildValues(tree) == {Value(tree.children[m]) : m \in DOMAIN tree.children}

Terminal(tree) == rank(tree.game) = Win \/ DOMAIN tree.children = {}

\* C9 as stated: the value of a node is Win if its rank is Win or it has no
\* children, and otherwise the maximum of the values of its children.
C9_Original ==
    (score # None /\ idx = 0) =>
       \A n \in LastNodes :
          LET t == moves_tree(n[1], n[2])
              v == IF Terminal(t) THEN Win ELSE MaxScore(ChildValues(t))
          IN  Value(t) = v

\* C9 amended: the value of a node is its own rank if that rank is Win or the
\* node has no children, and otherwise the maximum of the values of its
\* children; the score solve receives is the value of the root.
C9_NodeValue ==
    (score # None /\ idx = 0) =>
       /\ \A n \in LastNodes :
             LET t == moves_tree(n[1], n[2])
                 v == IF Terminal(t) THEN rank(t.game)
                      ELSE MaxScore(ChildValues(t))
             IN  {r.score : r \in find_best(t)} = {v}
       /\ score = Value(LastTree)

C9_Witness ==
    /\ score # None
    /\ idx = 0
    /\ score # Win
    /\ Len(next_moves) >= 1
    /\ Cardinality(ChildValues(LastTree)) >= 2

\* C16: when find_best is called on a node whose rank is not Win and that
\* has a child, the returned path is not empty, starts with the move of a
\* child whose value is the greatest of the children's values and goes on
\* with a best path of that child.
C16_BestPath ==
    (score # None /\ idx = 0 /\ ~Terminal(LastTree)) =>
       /\ next_moves # <<>>
       /\ Head(next_moves) \in DOMAIN LastTree.children
       /\ \E rc \in find_best(LastTree.children[Head(next_moves)]) :
             /\ rc.score = MaxScore(ChildValues(LastTree))
             /\ rc.moves = Tail(next_moves)

RECURSIVE tracked_moves(_, _)
\* The for loop of main run on the puzzle q with the list ms: the board it
\* ends on, and whether every move was one of moves() of the board it was
\* applied to.
tracked_moves(q, ms) ==
    IF ms = <<>> THEN [state |-> q.state, legal |-> TRUE]
    ELSE IF Head(ms) \notin Range(moves(q))
    THEN [state |-> q.state, legal |-> FALSE]
    ELSE tracked_moves(moved(q, Head(ms)), Tail(ms))

\* C17: after every cycle of solve, every accumulated move is one of
\* moves() of the board it is applied to when the list is replayed in order
\* from the initial board (so the replay never has an empty source), and,
\* when another cycle follows or the cap is reached, the board `game` is
\* the board that replay ends on.
C17_MovesTrackBoard ==
    (pc \in {"solve", "replay"} /\ idx = 0) =>
       LET rp == tracked_moves(P, solve_moves)
       IN  /\ rp.legal
           /\ score # Win => rp.state = game

C17_Witness ==
    /\ pc = "solve"
    /\ count = 1
    /\ solve_moves # <<>>
    /\ game # state
    /\ tracked_moves(P, solve_moves).legal
    /\ tracked_moves(P, solve_moves).state = game

\* C18: a cycle whose score is Win ends solve, with the path of that cycle
\* appended to the list; the replay of the returned list by main never
\* panics, and after it the board has rank Win.  When solve, called with
\* iterations >= 1, returns without such a cycle, the cap is used up and the
\* board the replay ends on does not have rank Win.
C18_WinSound ==
    /\ score = Win => Returned
    /\ Returned => status = "ok"
    /\ (Returned /\ iterations >= 1) =>
         /\ score = Win =>
              /\ Len(solve_moves) >= Len(next_moves)
              /\ SubSeq(solve_moves,
                        Len(solve_moves) - Len(next_moves) + 1,
                        Len(solve_moves)) = next_moves
         /\ score # Win => count = iterations
    /\ (pc = "exit" /\ iterations >= 1) => (score = Win <=> rank(P) = Win)

C18_Witness ==
    /\ pc = "exit"
    /\ score = Win
    /\ next_moves # <<>>
    /\ idx = Len(solve_moves)
    /\ rank(Puzzle(column_size, colors_count, root)) # Win
    /\ rank(P) = Win

\* C20: the path of every cycle has at most `depth` moves, and the list
\* solve(depth, iterations) returns has at most depth * iterations moves.
C20_PathBound ==
    /\ Len(next_moves) <= depth
    /\ Len(solve_moves) <= depth * Cycles
    /\ Len(solve_moves) <= depth * iterations

C20_Witness ==
    /\ Returned
    /\ depth >= 1
    /\ iterations = 2
    /\ Len(next_moves) = depth
    /\ Len(solve_moves) = depth * iterations

\* The two scores compared last: the rank of p and of the other puzzle.
ScoreA == score

ScoreB == rank(last.before)

\* C19: cmp is a total order consistent with equality with Win as its only
\* maximum: cmp(a, b) is Equal exactly when a = b, Win included; cmp(a, b) is
\* Greater exactly when cmp(b, a) is Less; Win is greater than every numeric
\* score; numeric scores compare as their numbers.
C19_TotalOrder ==
    last.kind = "rank" =>
       /\ (cmp(ScoreA, ScoreB) = "Equal") <=> (ScoreA = ScoreB)
       /\ (cmp(ScoreA, ScoreB) = "Greater") <=> (cmp(ScoreB, ScoreA) = "Less")
       /\ (ScoreA = Win /\ ScoreB # Win) => cmp(ScoreA, ScoreB) = "Greater"
       /\ (ScoreA # Win /\ ScoreB # Win) =>
            /\ (cmp(ScoreA, ScoreB) = "Less") <=> (ScoreA[2] < ScoreB[2])
            /\ (cmp(ScoreA, ScoreB) = "Equal") <=> (ScoreA[2] = ScoreB[2])

\* C10: what solve returns tells whether Win was reached: two calls with
\* positive depth and iterations that return the same value ended the same
\* way, both with a cycle of score Win or both without.
C10_ResultTellsOutcome ==
    (Returned /\ depth > 0 /\ iterations > 0) =>
       \A q \in prev :
          (q.depth > 0 /\ q.iterations > 0 /\ solve_moves = q.moves) =>
             ((score = Win) <=> q.won)

=============================================================================
